---- MODULE Spec2Model ----
(***************************************************************************)
(* State-machine model of websiteV3/js/main.js: the page script that wires *)
(* eight modules (preloader, mobileMenu, themeSwitcher, scrollEffects,     *)
(* featureTabs, animations, particlesBackground, activeNavigation) to the  *)
(* document.  A state is the part of the DOM, of localStorage and of the   *)
(* timer queue that the script reads or writes; an action is one browser   *)
(* task: the DOMContentLoaded handler, an event dispatch with every        *)
(* listener registered for it, or a timer callback.                        *)
(***************************************************************************)
EXTENDS Integers, Sequences, FiniteSets, TLC

(* ------------------------------ bounds -------------------------------- *)
MaxImages == 3
MaxTarget == 3
MaxCounters == 2
MaxTabs == 2
MaxTicks == 4

(* ------------------------- program constants -------------------------- *)
FixedItems == 2
duration == 2000
MinInterval == 10
HeaderThreshold == 50
BackToTopThreshold == 500
HeaderClearance == 100
NavOffset == 100
innerHeight == 600

Modules == 1..8
PRELOADER == 1
MOBILEMENU == 2
THEMESWITCHER == 3
SCROLLEFFECTS == 4
FEATURETABS == 5
ANIMATIONS == 6
PARTICLES == 7
ACTIVENAV == 8

(* ------------------- strings, parseInt and String() ------------------- *)
Digits == <<"0", "1", "2", "3", "4", "5", "6", "7", "8", "9">>

IsDigit(ch) == \E i \in 1..10 : Digits[i] = ch

DigitVal(ch) == (CHOOSE i \in 1..10 : Digits[i] = ch) - 1

RECURSIVE SkipSpace(_)
SkipSpace(s) == IF s # <<>> /\ Head(s) = " " THEN SkipSpace(Tail(s)) ELSE s

\* JavaScript numbers as the script meets them: an integer, NaN or Infinity
Num(n) == [kind |-> "num", val |-> n]
NaN == [kind |-> "NaN", val |-> 0]
Infinity == [kind |-> "Infinity", val |-> 0]

RECURSIVE DigitRun(_, _, _)
\* value of the longest digit prefix of s; NaN when that prefix is empty
DigitRun(s, acc, seen) ==
    IF s # <<>> /\ IsDigit(Head(s))
    THEN DigitRun(Tail(s), acc * 10 + DigitVal(Head(s)), TRUE)
    ELSE IF seen THEN Num(acc) ELSE NaN

\* parseInt(attr): attr is the attribute's sequence of characters (a missing
\* attribute is null, which parseInt reads as the string "null")
ParseInt(attr) ==
    LET t == SkipSpace(attr)
        neg == t # <<>> /\ Head(t) = "-"
        body == IF t # <<>> /\ Head(t) \in {"-", "+"} THEN Tail(t) ELSE t
        v == DigitRun(body, 0, FALSE)
    IN IF v.kind = "num" /\ neg THEN Num(0 - v.val) ELSE v

RECURSIVE StringOf(_)
\* String(n) for an integer n >= 0, as assigned to textContent
StringOf(n) ==
    IF n < 10 THEN <<Digits[n + 1]>>
    ELSE StringOf(n \div 10) \o <<Digits[(n % 10) + 1]>>

CeilDiv(a, b) == (a + b - 1) \div b

\* Math.floor(duration / target)
FloorInterval(target) ==
    IF target.kind = "NaN" THEN NaN
    ELSE IF target.val = 0 THEN Infinity
    ELSE IF target.val > 0 THEN Num(duration \div target.val)
    ELSE Num(0 - CeilDiv(duration, 0 - target.val))

\* Math.max(interval, 10)
MaxInterval(interval) ==
    IF interval.kind # "num" THEN interval
    ELSE IF interval.val > MinInterval THEN interval ELSE Num(MinInterval)

\* variant of ReachedTarget that stops one tick late
ReachedTargetStrict(count, target) == target.kind = "num" /\ count > target.val

\* count >= target as JavaScript evaluates it (false against NaN)
ReachedTarget(count, target) == target.kind = "num" /\ count >= target.val

VARIABLES
    phase,          \* "evaluated": script run, DOMContentLoaded pending; "ready"
    dom,            \* which referenced elements / libraries exist
    markup,         \* what the page ships: tabs, sections, counters
    images,         \* document.images
    loadedCount, totalItems, progressWidth, timeouts,
    reachedAt, scheduled,             \* history of increment()
    loaderFadeOut, bodyOverflow, aosRefreshCalls,
    hamburgerActive, navLinksActive, bodyMenuOpen,
    storedTheme, dataTheme, themeChecked,
    scrollY, smoothTarget, headerScrolled, backToTopActive, counters,
    tabBtnActive, tabPaneActive,
    navLinkActive,
    libs, wired, inited,
    lastEvent, prevEvent, menuBefore, menuBefore2,   \* history of menu events
    lastTabBtn,                       \* the tab button clicked last, 0 if none
    themeAtInit, themeAtPrevInit, changedSinceInit,  \* history across reloads
    writers,        \* history: for each node or key, the modules that wrote it
    arrived         \* history: the sections a smooth scroll has just settled on

preloaderVars == <<images, loadedCount, totalItems, progressWidth, timeouts,
                   reachedAt, scheduled, loaderFadeOut, bodyOverflow,
                   aosRefreshCalls>>
menuVars == <<hamburgerActive, navLinksActive, bodyMenuOpen>>
themeVars == <<storedTheme, dataTheme, themeChecked>>
scrollVars == <<scrollY, smoothTarget, headerScrolled, backToTopActive, counters>>
tabVars == <<tabBtnActive, tabPaneActive>>
histVars == <<lastEvent, prevEvent, menuBefore, menuBefore2, lastTabBtn,
              themeAtInit, themeAtPrevInit, changedSinceInit>>
vars == <<phase, dom, markup, preloaderVars, menuVars, themeVars, scrollVars,
          tabVars, navLinkActive, libs, wired, inited, histVars, writers,
          arrived>>

(* ------------------------------ preloader ------------------------------ *)
\* the closure state of the preloader IIFE plus what increment() writes
PreState == [loadedCount |-> loadedCount, totalItems |-> totalItems,
             width |-> progressWidth, timeouts |-> timeouts,
             reachedAt |-> reachedAt, scheduled |-> scheduled]

\* variant of IsComplete that waits for the count to pass the total
IsCompleteStrict(count, total) == count > total

\* loadedCount >= totalItems, the test that schedules the completion callback
IsComplete(count, total) == count >= total

\* increment(): width is the fraction (loadedCount * 100) / totalItems, kept
\* as <<numerator, denominator>>; reachedAt remembers the loadedCount at which
\* the total was first reached, scheduled counts the setTimeout calls
\* (q is p evaluated once, so that nested calls stay linear to evaluate)
increment(p) ==
    LET Step(q) ==
            LET lc == q.loadedCount + 1
                done == IsComplete(lc, q.totalItems)
            IN [q EXCEPT !.loadedCount = lc,
                         !.width = <<lc * 100, q.totalItems>>,
                         !.timeouts = IF done THEN @ + 1 ELSE @,
                         !.scheduled = IF done THEN @ + 1 ELSE @,
                         !.reachedAt = IF done /\ @ = 0 THEN lc ELSE @]
    IN CHOOSE r \in {Step(q) : q \in {p}} : TRUE

RECURSIVE CountImages(_, _, _)
\* the for-of loop over document.images: a complete image is counted at once
CountImages(imgs, i, p) ==
    IF i > Len(imgs) THEN p
    ELSE CountImages(imgs, i + 1, IF imgs[i].complete THEN increment(p) ELSE p)

\* listeners attached by the loop: only to images not complete at init
ListenImages(imgs) ==
    [i \in 1..Len(imgs) |->
        IF imgs[i].complete THEN [imgs[i] EXCEPT !.counted = @ + 1]
        ELSE [imgs[i] EXCEPT !.listening = TRUE]]

\* preloader.init(), lines 34-56, on the closure state p
PreloaderInit(imgs, p) ==
    LET p0 == [p EXCEPT !.width = <<0, 1>>]
        p1 == IF Len(imgs) > 0 THEN CountImages(imgs, 1, p0)
              ELSE increment(increment(p0))
    IN increment(increment(p1))

SetPre(p) ==
    /\ loadedCount' = p.loadedCount
    /\ progressWidth' = p.width
    /\ timeouts' = p.timeouts
    /\ reachedAt' = p.reachedAt
    /\ scheduled' = p.scheduled
    /\ UNCHANGED totalItems

(* ----------------------------- mobile menu ----------------------------- *)
MenuState == [hamburger |-> hamburgerActive, navLinks |-> navLinksActive,
              body |-> bodyMenuOpen]

\* variant of MenuToggle that leaves the body class alone
MenuToggleNoBody(m) == [hamburger |-> ~m.hamburger, navLinks |-> ~m.navLinks,
                        body |-> m.body]

\* the menu button's click listener: three classList.toggle calls
MenuToggle(m) == [hamburger |-> ~m.hamburger, navLinks |-> ~m.navLinks,
                  body |-> ~m.body]

\* variant of MenuClose that toggles the classes instead of removing them
MenuCloseToggle(m) == [hamburger |-> ~m.hamburger, navLinks |-> ~m.navLinks,
                       body |-> ~m.body]

\* a nav link's click listener: three classList.remove calls
MenuClose(m) == [hamburger |-> FALSE, navLinks |-> FALSE, body |-> FALSE]

SetMenu(m) ==
    /\ hamburgerActive' = m.hamburger
    /\ navLinksActive' = m.navLinks
    /\ bodyMenuOpen' = m.body

(* ---------------------------- theme switcher --------------------------- *)
\* variant of SavedTheme that falls back to the light theme
SavedThemeLight(stored) == IF stored \in {"null", ""} THEN "light" ELSE stored

\* localStorage.getItem('theme') || 'dark': "null" stands for an absent key
SavedTheme(stored) == IF stored \in {"null", ""} THEN "dark" ELSE stored

\* variant of ThemeOf with the two themes exchanged
ThemeOfSwapped(checked) == IF checked THEN "light" ELSE "dark"

\* isDarkMode ? 'dark' : 'light'
ThemeOf(checked) == IF checked THEN "dark" ELSE "light"

\* themeToggle.checked = savedTheme === 'dark'
CheckedFor(theme) == theme = "dark"

ThemeSnapshot(attr, checked, stored) ==
    [attr |-> attr, checked |-> checked, stored |-> stored]

NoSnapshot == ThemeSnapshot("none", FALSE, "none")

(* ----------------------------- feature tabs ---------------------------- *)
TabBtns == 1..markup.tabs
TabPanes == 1..markup.tabs

\* tabBtns.forEach(b => b.classList.remove('active')); btn.classList.add('active')
TabBtnsAfter(active, btn) == (active \ TabBtns) \cup {btn}

\* variant of TabPanesAfter that leaves the other panes as they are
TabPanesAfterKeep(active, tabId) == active \cup {tabId}

\* tabPanes.forEach(p => p.classList.remove('active'));
\* document.getElementById(tabId).classList.add('active')
TabPanesAfter(active, tabId) == (active \ TabPanes) \cup {tabId}

(* ---------------------------- scroll effects --------------------------- *)
\* counter.getBoundingClientRect().top at scroll offset y
CounterPosition(c, y) == c.top - y

\* the height of a counter's bounding box
CounterHeight == 50

\* variant of ShouldAnimate that ignores the 'animated' class
ShouldAnimateInView(c, y) == CounterPosition(c, y) < innerHeight

\* the guard of animateCounters, line 164
ShouldAnimate(c, y) == CounterPosition(c, y) < innerHeight /\ ~c.animated

\* lines 165-179: mark the element and start its interval timer
StartCounter(c) ==
    LET target == ParseInt(c.attr)
    IN [c EXCEPT !.animated = TRUE, !.target = target, !.count = 0,
                 !.delay = MaxInterval(FloorInterval(target)),
                 !.timer = "running", !.started = @ + 1]

\* one pass of counterItems.forEach; posAtStart records where the box was
\* when the counter was started, away that an animated counter has since
\* been seen below the viewport
animateCounters(cs, y) ==
    [i \in DOMAIN cs |->
        IF ShouldAnimate(cs[i], y)
        THEN [StartCounter(cs[i]) EXCEPT !.posAtStart = CounterPosition(cs[i], y)]
        ELSE IF cs[i].animated /\ CounterPosition(cs[i], y) >= innerHeight
             THEN [cs[i] EXCEPT !.away = TRUE]
             ELSE cs[i]]

\* the interval callback, lines 172-178
CounterTick(c) ==
    LET n == c.count + 1
    IN [c EXCEPT !.count = n, !.text = StringOf(n), !.ticks = @ + 1,
                 !.timer = IF ReachedTarget(n, c.target) THEN "cleared" ELSE @]

ScrollState == [header |-> headerScrolled, backToTop |-> backToTopActive,
                counters |-> counters]

\* variant of HandleScroll whose thresholds are inclusive
HandleScrollInclusive(y, st) ==
    IF ~dom.header THEN st
    ELSE IF ~dom.backToTopBtn THEN [st EXCEPT !.header = y >= HeaderThreshold]
    ELSE [header |-> y >= HeaderThreshold,
          backToTop |-> y >= BackToTopThreshold,
          counters |-> animateCounters(st.counters, y)]

\* handleScroll, lines 118-137; a missing element throws at its first use
HandleScroll(y, st) ==
    IF ~dom.header THEN st
    ELSE IF ~dom.backToTopBtn THEN [st EXCEPT !.header = y > HeaderThreshold]
    ELSE [header |-> y > HeaderThreshold,
          backToTop |-> y > BackToTopThreshold,
          counters |-> animateCounters(st.counters, y)]

\* window.scrollTo clamps to the scrollable range
Clamp(t) == IF t < 0 THEN 0 ELSE IF t > markup.scrollMax THEN markup.scrollMax ELSE t

\* targetElement.offsetTop - 100, line 148
SmoothOffset(section) == section.top - HeaderClearance

(* --------------------------- active navigation ------------------------- *)
Sections == DOMAIN markup.sections

\* variant of InSection whose range is closed at both ends
InSectionClosed(y, section) ==
    LET sectionTop == section.top - NavOffset
    IN y >= sectionTop /\ y <= sectionTop + section.height

\* the test of line 410 for one section at scroll offset y
InSection(y, section) ==
    LET sectionTop == section.top - NavOffset
    IN y > sectionTop /\ y <= sectionTop + section.height

\* highlightNavLink: a section without a nav link is skipped by ?.
highlightNavLink(y, active) ==
    [i \in Sections |->
        IF markup.sections[i].hasLink THEN InSection(y, markup.sections[i])
        ELSE active[i]]

\* every listener registered for the scroll event, in registration order
ScrollDispatch(y) ==
    LET st == IF "handleScroll" \in wired THEN HandleScroll(y, ScrollState)
              ELSE ScrollState
    IN /\ headerScrolled' = st.header
       /\ backToTopActive' = st.backToTop
       /\ counters' = st.counters
       /\ navLinkActive' = IF "highlightNavLink" \in wired
                           THEN highlightNavLink(y, navLinkActive)
                           ELSE navLinkActive

(* --------------------------- who writes what --------------------------- *)
Nodes == {"loader", "progress", "body", "hamburger", "navLinks", "root",
          "themeToggle", "storage.theme", "header", "backToTop", "counters",
          "tabBtns", "tabPanes", "navLinkItems"}

NoWriters == [n \in Nodes |-> {}]

\* writers after module k has written each node of ns
Wrote(w, ns, k) == [n \in Nodes |-> IF n \in ns THEN w[n] \cup {k} ELSE w[n]]

\* lines 22 (progress), 26-27 (loader, body)
IncrementWrites == {"progress"}
TimeoutWrites == {"loader", "body"}

\* variant of MenuWrites in which the scroll lock is put on the header
MenuWritesHeader == {"hamburger", "navLinks", "header"}

\* lines 69-71 and 77-79
MenuWrites == {"hamburger", "navLinks", "body"}

\* lines 95-96
ToggleThemeWrites == {"root", "storage.theme"}

\* lines 207-212
TabWrites == {"tabBtns", "tabPanes"}

\* the nodes one run of handleScroll writes at offset y (lines 122-136, 165)
HandleScrollWrites(y) ==
    IF ~dom.header THEN {}
    ELSE IF ~dom.backToTopBtn THEN {"header"}
    ELSE {"header", "backToTop"}
         \cup (IF \E i \in DOMAIN counters : ShouldAnimate(counters[i], y)
               THEN {"counters"} ELSE {})

\* lines 411-413: only sections that have a nav link
HighlightWrites ==
    IF \E i \in Sections : markup.sections[i].hasLink THEN {"navLinkItems"} ELSE {}

\* what the listeners of one scroll event write
ScrollWritten(w, y) ==
    LET w1 == IF "handleScroll" \in wired
              THEN Wrote(w, HandleScrollWrites(y), SCROLLEFFECTS) ELSE w
    IN IF "highlightNavLink" \in wired
       THEN Wrote(w1, HighlightWrites, ACTIVENAV) ELSE w1

(* ------------------------------- startup ------------------------------- *)
\* whether module k's init throws: the element or library it dereferences
\* first is missing
Faults(k) ==
    CASE k = PRELOADER -> ~dom.progress
      [] k = MOBILEMENU -> ~dom.mobileMenuBtn
      [] k = THEMESWITCHER -> ~dom.themeToggle
      [] k = SCROLLEFFECTS -> ~dom.header \/ ~dom.backToTopBtn
      [] k = FEATURETABS -> FALSE
      [] k = ANIMATIONS -> ~dom.AOS \/ ~dom.gsap
      [] k = PARTICLES -> dom.particlesContainer /\ ~dom.particlesJS
      [] k = ACTIVENAV -> FALSE

\* the DOMContentLoaded handler calls the inits one after the other with no
\* try/catch: the first throw ends the handler
FirstFault ==
    IF \E k \in Modules : Faults(k)
    THEN CHOOSE k \in Modules : Faults(k) /\ \A j \in 1..(k - 1) : ~Faults(j)
    ELSE 9

Runs(k) == k <= FirstFault

Completes(k) == k < FirstFault

\* the listeners each init registers before it returns or throws
WiredBy(k) ==
    CASE k = PRELOADER -> {}
      [] k = MOBILEMENU -> IF Faults(k) THEN {} ELSE {"menuClick", "navClose"}
      [] k = THEMESWITCHER -> IF Faults(k) THEN {} ELSE {"themeChange"}
      [] k = SCROLLEFFECTS -> {"handleScroll", "smoothScroll"}
      [] k = FEATURETABS -> {"tabClick"}
      [] k = ANIMATIONS -> {}
      [] k = PARTICLES -> {}
      [] k = ACTIVENAV -> {"highlightNavLink"}

DOMContentLoaded ==
    /\ phase = "evaluated"
    /\ phase' = "ready"
    /\ IF Completes(PRELOADER)
       THEN /\ SetPre(PreloaderInit(images, PreState))
            /\ images' = ListenImages(images)
       ELSE UNCHANGED <<images, loadedCount, totalItems, progressWidth,
                        timeouts, reachedAt, scheduled>>
    /\ UNCHANGED <<loaderFadeOut, bodyOverflow, aosRefreshCalls>>
    /\ UNCHANGED menuVars
    /\ dataTheme' = IF Runs(THEMESWITCHER) THEN SavedTheme(storedTheme)
                    ELSE dataTheme
    /\ themeChecked' = IF Completes(THEMESWITCHER)
                       THEN CheckedFor(SavedTheme(storedTheme))
                       ELSE themeChecked
    /\ UNCHANGED storedTheme
    /\ LET st == IF Runs(SCROLLEFFECTS) THEN HandleScroll(scrollY, ScrollState)
                 ELSE ScrollState
       IN /\ headerScrolled' = st.header
          /\ backToTopActive' = st.backToTop
          /\ counters' = st.counters
    /\ UNCHANGED <<scrollY, smoothTarget>>
    /\ UNCHANGED tabVars
    /\ libs' = [aosInit |-> Runs(ANIMATIONS) /\ dom.AOS,
                gsap |-> Completes(ANIMATIONS),
                particles |-> Completes(PARTICLES) /\ dom.particlesContainer]
    /\ navLinkActive' = IF Runs(ACTIVENAV)
                        THEN highlightNavLink(scrollY, navLinkActive)
                        ELSE navLinkActive
    /\ wired' = UNION {WiredBy(k) : k \in {j \in Modules : Runs(j)}}
    /\ inited' = {k \in Modules : Completes(k)}
    /\ themeAtInit' = IF Completes(THEMESWITCHER)
                      THEN ThemeSnapshot(dataTheme', themeChecked', storedTheme)
                      ELSE NoSnapshot
    /\ changedSinceInit' = FALSE
    /\ LET w1 == IF Completes(PRELOADER)
                 THEN Wrote(writers, IncrementWrites, PRELOADER) ELSE writers
           w2 == IF Runs(THEMESWITCHER)
                 THEN Wrote(w1, IF Completes(THEMESWITCHER)
                                THEN {"root", "themeToggle"} ELSE {"root"},
                            THEMESWITCHER)
                 ELSE w1
           w3 == IF Runs(SCROLLEFFECTS)
                 THEN Wrote(w2, HandleScrollWrites(scrollY), SCROLLEFFECTS)
                 ELSE w2
       IN writers' = IF Runs(ACTIVENAV)
                     THEN Wrote(w3, HighlightWrites, ACTIVENAV) ELSE w3
    /\ UNCHANGED <<markup, dom, lastEvent, prevEvent, menuBefore, menuBefore2,
                   lastTabBtn, themeAtPrevInit, arrived>>

(* -------------------------------- events ------------------------------- *)
NewImage == [complete |-> FALSE, listening |-> FALSE, counted |-> 0,
             outcome |-> "none"]

\* the parser (or another script) adds an <img> after this script has run
ParseImage ==
    /\ phase = "evaluated"
    /\ Len(images) < MaxImages
    /\ images' = Append(images, NewImage)
    /\ UNCHANGED <<phase, dom, markup, loadedCount, totalItems, progressWidth,
                   timeouts, reachedAt, scheduled, loaderFadeOut, bodyOverflow,
                   aosRefreshCalls, menuVars, themeVars, scrollVars, tabVars,
                   navLinkActive, libs, wired, inited, histVars, writers,
                   arrived>>

\* variant of ImageOutcome for a loop that attaches the load listener only
ImageOutcomeLoadOnly(i, outcome) ==
    /\ i \in 1..Len(images)
    /\ ~images[i].complete
    /\ images' = [images EXCEPT ![i].complete = TRUE, ![i].outcome = outcome,
                                ![i].counted = IF images[i].listening
                                                  /\ outcome = "load"
                                               THEN @ + 1 ELSE @]
    /\ IF images[i].listening /\ outcome = "load"
       THEN SetPre(increment(PreState))
       ELSE UNCHANGED <<loadedCount, totalItems, progressWidth, timeouts,
                        reachedAt, scheduled>>
    /\ writers' = IF images[i].listening /\ outcome = "load"
                  THEN Wrote(writers, IncrementWrites, PRELOADER) ELSE writers
    /\ UNCHANGED <<phase, dom, markup, loaderFadeOut, bodyOverflow,
                   aosRefreshCalls, menuVars, themeVars, scrollVars, tabVars,
                   navLinkActive, libs, wired, inited, histVars, arrived>>

\* image i finishes: its load or error event runs increment if init attached
\* the listeners to it
ImageOutcome(i, outcome) ==
    /\ i \in 1..Len(images)
    /\ ~images[i].complete
    /\ images' = [images EXCEPT ![i].complete = TRUE, ![i].outcome = outcome,
                                ![i].counted = IF images[i].listening
                                               THEN @ + 1 ELSE @]
    /\ IF images[i].listening THEN SetPre(increment(PreState))
       ELSE UNCHANGED <<loadedCount, totalItems, progressWidth, timeouts,
                        reachedAt, scheduled>>
    /\ writers' = IF images[i].listening
                  THEN Wrote(writers, IncrementWrites, PRELOADER) ELSE writers
    /\ UNCHANGED <<phase, dom, markup, loaderFadeOut, bodyOverflow,
                   aosRefreshCalls, menuVars, themeVars, scrollVars, tabVars,
                   navLinkActive, libs, wired, inited, histVars, arrived>>

ImageLoad == \E i \in 1..MaxImages : ImageOutcome(i, "load")

ImageError == \E i \in 1..MaxImages : ImageOutcome(i, "error")

\* the 500 ms callback of lines 25-30
TimeoutFire ==
    /\ timeouts > 0
    /\ timeouts' = timeouts - 1
    /\ loaderFadeOut' = TRUE
    /\ bodyOverflow' = "visible"
    /\ aosRefreshCalls' = IF dom.AOS THEN aosRefreshCalls + 1 ELSE aosRefreshCalls
    /\ UNCHANGED <<phase, dom, markup, images, loadedCount, totalItems,
                   progressWidth, reachedAt, scheduled, menuVars, themeVars,
                   scrollVars, tabVars, navLinkActive, libs, wired, inited,
                   histVars, arrived>>
    /\ writers' = Wrote(writers, TimeoutWrites, PRELOADER)

MenuHistory(event) ==
    /\ lastEvent' = event
    /\ prevEvent' = lastEvent
    /\ menuBefore' = MenuState
    /\ menuBefore2' = menuBefore

MenuButtonClick ==
    /\ "menuClick" \in wired
    /\ SetMenu(MenuToggle(MenuState))
    /\ MenuHistory("menuBtn")
    /\ writers' = Wrote(writers, MenuWrites, MOBILEMENU)
    /\ UNCHANGED <<phase, dom, markup, preloaderVars, themeVars, scrollVars,
                   tabVars, navLinkActive, libs, wired, inited, lastTabBtn,
                   themeAtInit, themeAtPrevInit, changedSinceInit, arrived>>

\* a click on the nav link of section i: the mobileMenu listener, then the
\* smooth-scroll listener when the link carries data-scroll
NavLinkClick ==
    \E i \in Sections :
        /\ markup.sections[i].hasLink
        /\ "navClose" \in wired \/ (markup.navDataScroll /\ "smoothScroll" \in wired)
        /\ IF "navClose" \in wired
           THEN /\ SetMenu(MenuClose(MenuState))
                /\ MenuHistory("navLink")
                /\ writers' = Wrote(writers, MenuWrites, MOBILEMENU)
           ELSE UNCHANGED <<menuVars, lastEvent, prevEvent, menuBefore,
                            menuBefore2, writers>>
        /\ smoothTarget' = IF markup.navDataScroll /\ "smoothScroll" \in wired
                           THEN {SmoothOffset(markup.sections[i])}
                           ELSE smoothTarget
        /\ UNCHANGED <<phase, dom, markup, preloaderVars, themeVars, scrollY,
                       headerScrolled, backToTopActive, counters, tabVars,
                       navLinkActive, libs, wired, inited, lastTabBtn,
                       themeAtInit, themeAtPrevInit, changedSinceInit, arrived>>

\* a click on a [data-scroll] link outside the nav; t = 0 is an href that
\* matches no element
ScrollLinkClick ==
    \E t \in Sections \cup {0} :
        /\ "smoothScroll" \in wired
        /\ smoothTarget' = IF t = 0 THEN smoothTarget
                           ELSE {SmoothOffset(markup.sections[t])}
        /\ UNCHANGED <<phase, dom, markup, preloaderVars, menuVars, themeVars,
                       scrollY, headerScrolled, backToTopActive, counters,
                       tabVars, navLinkActive, libs, wired, inited, histVars,
                       writers, arrived>>

\* the user flips the checkbox; its change event runs toggleTheme
ThemeChange ==
    /\ "themeChange" \in wired
    /\ themeChecked' = ~themeChecked
    /\ dataTheme' = ThemeOf(themeChecked')
    /\ storedTheme' = ThemeOf(themeChecked')
    /\ changedSinceInit' = TRUE
    /\ UNCHANGED <<phase, dom, markup, preloaderVars, menuVars, scrollVars,
                   tabVars, navLinkActive, libs, wired, inited, lastEvent,
                   prevEvent, menuBefore, menuBefore2, lastTabBtn, themeAtInit,
                   themeAtPrevInit, arrived>>
    /\ writers' = Wrote(writers, ToggleThemeWrites, THEMESWITCHER)

TabClick ==
    \E btn \in TabBtns :
        /\ "tabClick" \in wired
        /\ tabBtnActive' = TabBtnsAfter(tabBtnActive, btn)
        /\ tabPaneActive' = TabPanesAfter(tabPaneActive, markup.dataTab[btn])
        /\ lastTabBtn' = btn
        /\ UNCHANGED <<phase, dom, markup, preloaderVars, menuVars, themeVars,
                       scrollVars, navLinkActive, libs, wired, inited,
                       lastEvent, prevEvent, menuBefore, menuBefore2,
                       themeAtInit, themeAtPrevInit, changedSinceInit, arrived>>
        /\ writers' = Wrote(writers, TabWrites, FEATURETABS)

\* the viewport moves to offset y and the scroll event is dispatched
Scroll ==
    \E y \in markup.stops :
        /\ y # scrollY
        /\ scrollY' = y
        /\ ScrollDispatch(y)
        /\ writers' = ScrollWritten(writers, y)
        /\ arrived' = {}
        /\ UNCHANGED <<phase, dom, markup, preloaderVars, menuVars, themeVars,
                       smoothTarget, tabVars, libs, wired, inited, histVars>>

\* a smooth scroll started by scrollTo arrives at its (clamped) target
SmoothSettle ==
    \E t \in smoothTarget :
        /\ smoothTarget' = {}
        /\ scrollY' = Clamp(t)
        /\ IF Clamp(t) # scrollY
           THEN ScrollDispatch(Clamp(t)) /\ writers' = ScrollWritten(writers, Clamp(t))
           ELSE UNCHANGED <<headerScrolled, backToTopActive, counters,
                            navLinkActive, writers>>
        /\ arrived' = IF Clamp(t) = t
                      THEN {i \in Sections : SmoothOffset(markup.sections[i]) = t}
                      ELSE {}
        /\ UNCHANGED <<phase, dom, markup, preloaderVars, menuVars, themeVars,
                       tabVars, libs, wired, inited, histVars>>

\* one firing of a counter's interval timer
Tick ==
    \E i \in DOMAIN counters :
        /\ counters[i].timer = "running"
        /\ counters[i].target.kind = "num" \/ counters[i].count < MaxTicks
        /\ counters' = [counters EXCEPT ![i] = CounterTick(@)]
        /\ writers' = Wrote(writers, {"counters"}, SCROLLEFFECTS)
        /\ UNCHANGED arrived
        /\ UNCHANGED <<phase, dom, markup, preloaderVars, menuVars, themeVars,
                       scrollY, smoothTarget, headerScrolled, backToTopActive,
                       tabVars, navLinkActive, libs, wired, inited, histVars>>

(* ------------------------- the page as it loads ------------------------ *)
FreshCounter(item) ==
    [attr |-> item.attr, top |-> item.top, animated |-> FALSE,
     target |-> NaN, count |-> 0, delay |-> NaN, timer |-> "none",
     text |-> <<"0">>, ticks |-> 0, started |-> 0, away |-> FALSE,
     posAtStart |-> 0]

FreshImages(n) == [i \in 1..n |-> NewImage]

\* the state right after the script has been evaluated (lines 1-17 and the
\* module IIFEs) on a page with markup m, elements d and stored theme stored
InitPage(d, m, stored) ==
    /\ phase = "evaluated"
    /\ dom = d
    /\ markup = m
    /\ images = FreshImages(m.imagesAtEval)
    /\ loadedCount = 0
    /\ totalItems = m.imagesAtEval + FixedItems
    /\ progressWidth = <<0, 1>>
    /\ timeouts = 0
    /\ reachedAt = 0
    /\ scheduled = 0
    /\ loaderFadeOut = FALSE
    /\ bodyOverflow = "hidden"
    /\ aosRefreshCalls = 0
    /\ hamburgerActive = FALSE
    /\ navLinksActive = FALSE
    /\ bodyMenuOpen = FALSE
    /\ storedTheme = stored
    /\ dataTheme = "null"
    /\ themeChecked = FALSE
    /\ scrollY = 0
    /\ smoothTarget = {}
    /\ headerScrolled = FALSE
    /\ backToTopActive = FALSE
    /\ counters = [i \in DOMAIN m.counterItems |-> FreshCounter(m.counterItems[i])]
    /\ tabBtnActive = m.tabBtn0
    /\ tabPaneActive = m.tabPane0
    /\ navLinkActive = m.navActive0
    /\ libs = [aosInit |-> FALSE, gsap |-> FALSE, particles |-> FALSE]
    /\ wired = {}
    /\ inited = {}
    /\ lastEvent = "none"
    /\ prevEvent = "none"
    /\ menuBefore = [hamburger |-> FALSE, navLinks |-> FALSE, body |-> FALSE]
    /\ menuBefore2 = [hamburger |-> FALSE, navLinks |-> FALSE, body |-> FALSE]
    /\ lastTabBtn = 0
    /\ themeAtInit = NoSnapshot
    /\ themeAtPrevInit = NoSnapshot
    /\ changedSinceInit = FALSE
    /\ writers = NoWriters
    /\ arrived = {}

\* the user reloads: a new document and a new script run; only localStorage
\* survives
Reload ==
    /\ phase = "ready"
    /\ phase' = "evaluated"
    /\ images' = FreshImages(markup.imagesAtEval)
    /\ loadedCount' = 0
    /\ totalItems' = markup.imagesAtEval + FixedItems
    /\ progressWidth' = <<0, 1>>
    /\ timeouts' = 0
    /\ reachedAt' = 0
    /\ scheduled' = 0
    /\ loaderFadeOut' = FALSE
    /\ bodyOverflow' = "hidden"
    /\ aosRefreshCalls' = 0
    /\ hamburgerActive' = FALSE
    /\ navLinksActive' = FALSE
    /\ bodyMenuOpen' = FALSE
    /\ dataTheme' = "null"
    /\ themeChecked' = FALSE
    /\ scrollY' = 0
    /\ smoothTarget' = {}
    /\ headerScrolled' = FALSE
    /\ backToTopActive' = FALSE
    /\ counters' = [i \in DOMAIN markup.counterItems |->
                        FreshCounter(markup.counterItems[i])]
    /\ tabBtnActive' = markup.tabBtn0
    /\ tabPaneActive' = markup.tabPane0
    /\ navLinkActive' = markup.navActive0
    /\ libs' = [aosInit |-> FALSE, gsap |-> FALSE, particles |-> FALSE]
    /\ wired' = {}
    /\ inited' = {}
    /\ lastEvent' = "none"
    /\ prevEvent' = "none"
    /\ menuBefore' = [hamburger |-> FALSE, navLinks |-> FALSE, body |-> FALSE]
    /\ menuBefore2' = [hamburger |-> FALSE, navLinks |-> FALSE, body |-> FALSE]
    /\ lastTabBtn' = 0
    /\ themeAtPrevInit' = IF changedSinceInit THEN NoSnapshot ELSE themeAtInit
    /\ themeAtInit' = NoSnapshot
    /\ changedSinceInit' = FALSE
    /\ writers' = NoWriters
    /\ arrived' = {}
    /\ UNCHANGED <<dom, markup, storedTheme>>

(* ------------------------------- pages --------------------------------- *)
AllPresent == [progress |-> TRUE, mobileMenuBtn |-> TRUE, themeToggle |-> TRUE,
               header |-> TRUE, backToTopBtn |-> TRUE, AOS |-> TRUE,
               gsap |-> TRUE, particlesContainer |-> TRUE, particlesJS |-> TRUE]

Section(top, height, hasLink) == [top |-> top, height |-> height, hasLink |-> hasLink]

\* three stacked sections; gap shifts the second and third (negative: they
\* overlap the first), lastHeight is the height of the third
Layout(gap, lastHeight, lastLink) ==
    <<Section(0, 300, TRUE), Section(300 + gap, 400, TRUE),
      Section(700 + gap, lastHeight, lastLink)>>

\* document height minus the viewport height
ScrollMaxOf(secs) ==
    LET last == secs[Len(secs)]
        docHeight == last.top + last.height
    IN IF docHeight > innerHeight THEN docHeight - innerHeight ELSE 0

\* the scroll offsets the model visits: the thresholds of the handlers and
\* both ends of every section's range, each with its neighbours
StopsOf(secs) ==
    LET edges == {HeaderThreshold, BackToTopThreshold}
                 \cup {secs[i].top - NavOffset : i \in DOMAIN secs}
                 \cup {secs[i].top - NavOffset + secs[i].height : i \in DOMAIN secs}
        near == UNION {{e - 1, e, e + 1} : e \in edges}
    IN {y \in near \cup {0, ScrollMaxOf(secs)} : y >= 0 /\ y <= ScrollMaxOf(secs)}

BaseMarkup ==
    [tabs |-> 1, dataTab |-> <<1>>, tabBtn0 |-> {1}, tabPane0 |-> {1},
     sections |-> Layout(0, 800, TRUE),
     navActive0 |-> <<FALSE, FALSE, FALSE>>,
     scrollMax |-> ScrollMaxOf(Layout(0, 800, TRUE)),
     stops |-> {0, 600},
     navDataScroll |-> TRUE,
     imagesAtEval |-> 0,
     counterItems |-> <<>>]

StoredThemes == {"null", "", "dark", "light", "sepia"}

\* data-target attributes: the decimal numerals up to MaxTarget, a numeral
\* large enough for the 10 ms floor, and numerals parseInt reads specially
TargetAttrs ==
    {StringOf(n) : n \in 0..MaxTarget}
    \cup {<<"2", "0", "1">>, <<"-", "2">>, <<"0", "2">>, <<"3", "p", "x">>,
          <<"n", "u", "l", "l">>}

ShortAttrs == {StringOf(0), StringOf(2)}

(* --------------------------- specifications ---------------------------- *)
InitPreloader ==
    \E n \in 0..MaxImages, aos \in BOOLEAN :
        InitPage([AllPresent EXCEPT !.AOS = aos, !.gsap = aos],
                 [BaseMarkup EXCEPT !.imagesAtEval = n], "null")

NextPreloader ==
    \/ ParseImage
    \/ DOMContentLoaded
    \/ ImageLoad
    \/ ImageError
    \/ TimeoutFire

SpecPreloader == InitPreloader /\ [][NextPreloader]_vars

\* the preloader when the browser does its part: DOMContentLoaded is
\* dispatched, every pending image ends in load or error, due timers fire
FairPreloader ==
    /\ SpecPreloader
    /\ WF_vars(DOMContentLoaded)
    /\ WF_vars(ImageLoad \/ ImageError)
    /\ WF_vars(TimeoutFire)

InitClicks ==
    \E n \in 1..MaxTabs, stored \in StoredThemes :
        \E dt \in [1..n -> 1..n], b0 \in SUBSET (1..n), p0 \in SUBSET (1..n) :
            InitPage(AllPresent,
                     [BaseMarkup EXCEPT !.tabs = n, !.dataTab = dt,
                                        !.tabBtn0 = b0, !.tabPane0 = p0,
                                        !.navDataScroll = FALSE],
                     stored)

NextClicks ==
    \/ DOMContentLoaded
    \/ MenuButtonClick
    \/ NavLinkClick
    \/ ThemeChange
    \/ TabClick
    \/ Reload

SpecClicks == InitClicks /\ [][NextClicks]_vars

InitScroll ==
    \E gap \in {0 - 50, 0, 50}, lastHeight \in {400, 800},
       lastLink \in BOOLEAN, homeActive \in BOOLEAN :
        InitPage(AllPresent,
                 [BaseMarkup EXCEPT
                    !.sections = Layout(gap, lastHeight, lastLink),
                    !.navActive0 = <<homeActive, FALSE, FALSE>>,
                    !.scrollMax = ScrollMaxOf(Layout(gap, lastHeight, lastLink)),
                    !.stops = StopsOf(Layout(gap, lastHeight, lastLink)),
                    !.counterItems = <<[attr |-> StringOf(2), top |-> 1100]>>],
                 "null")

NextScroll ==
    \/ DOMContentLoaded
    \/ Scroll
    \/ NavLinkClick
    \/ ScrollLinkClick
    \/ SmoothSettle
    \/ Tick

SpecScroll == InitScroll /\ [][NextScroll]_vars

InitCounters ==
    \E n \in 1..MaxCounters, top \in {300, 900}, first \in TargetAttrs :
        \E rest \in [2..n -> ShortAttrs] :
            InitPage(AllPresent,
                     [BaseMarkup EXCEPT
                        !.stops = {0, 400, 900},
                        !.counterItems =
                            [i \in 1..n |->
                                [attr |-> IF i = 1 THEN first ELSE rest[i],
                                 top |-> top]]],
                     "null")

NextCounters ==
    \/ DOMContentLoaded
    \/ Scroll
    \/ Tick

SpecCounters == InitCounters /\ [][NextCounters]_vars

InitStartup ==
    \E d \in [DOMAIN AllPresent -> BOOLEAN] :
        InitPage(d,
                 [BaseMarkup EXCEPT
                    !.counterItems = <<[attr |-> StringOf(1), top |-> 300]>>],
                 "null")

NextStartup ==
    \/ DOMContentLoaded
    \/ MenuButtonClick
    \/ ThemeChange
    \/ TabClick
    \/ Scroll
    \/ TimeoutFire

SpecStartup == InitStartup /\ [][NextStartup]_vars

(* ------------------------------ properties ----------------------------- *)
\* the number of increments the preloader should need on a page whose init
\* sees n images
IncrementsNeeded(n) == IF n = 0 THEN FixedItems ELSE n + FixedItems

\* C1: once preloader.init has run on N images, the loaded count first
\* reaches the total at exactly N + 2 increments (2 when N = 0): never with
\* fewer, and that many always suffice.
C1_ExactIncrements ==
    PRELOADER \in inited =>
        /\ reachedAt # 0 => reachedAt = IncrementsNeeded(Len(images))
        /\ loadedCount >= IncrementsNeeded(Len(images)) => reachedAt # 0

\* C2: after at least one click on a tab button exactly one button and
\* exactly one pane are active, and the pane is the one the active button's
\* data-tab names.
C2_SingleTab ==
    lastTabBtn # 0 =>
        /\ Cardinality(tabBtnActive) = 1
        /\ Cardinality(tabPaneActive) = 1
        /\ \A btn \in tabBtnActive : markup.dataTab[btn] \in tabPaneActive

\* a click on a button whose pane has another number, on a page that shipped
\* with both panes active
C2_Witness ==
    /\ lastTabBtn # 0
    /\ markup.dataTab[lastTabBtn] # lastTabBtn
    /\ Cardinality(markup.tabPane0) = 2

\* C3: right after themeSwitcher.init a stored 'dark' gives attribute dark and
\* a checked toggle, 'light' gives light and unchecked, an absent key gives
\* dark and checked; and an init that follows an init with no change event in
\* between ends with the same attribute, checked state and stored value.
C3_ThemeRoundTrip ==
    (phase = "ready" /\ THEMESWITCHER \in inited /\ ~changedSinceInit) =>
        /\ storedTheme = "dark" => dataTheme = "dark" /\ themeChecked
        /\ storedTheme = "light" => dataTheme = "light" /\ ~themeChecked
        /\ storedTheme = "null" => dataTheme = "dark" /\ themeChecked
        /\ themeAtPrevInit # NoSnapshot =>
              ThemeSnapshot(dataTheme, themeChecked, storedTheme) = themeAtPrevInit

\* the light theme was written, then the page was loaded twice in a row
C3_Witness ==
    /\ phase = "ready"
    /\ ~changedSinceInit
    /\ themeAtPrevInit # NoSnapshot
    /\ storedTheme = "light"
    /\ ~themeChecked

\* the integer a counter's data-target holds
TargetOf(c) == ParseInt(c.attr)

\* C4: when a counter's interval has been cleared, the element displays
\* exactly its target T, for every integer target T >= 0.
C4_EndsAtTarget ==
    \A i \in DOMAIN counters :
        (counters[i].timer = "cleared" /\ TargetOf(counters[i]).kind = "num"
            /\ TargetOf(counters[i]).val >= 0) =>
        counters[i].text = StringOf(TargetOf(counters[i]).val)

\* the timer period the spec's tick formula divides by
PeriodOf(c) == MaxInterval(FloorInterval(TargetOf(c))).val

\* C5 as stated: a finished counter with target T >= 1 has performed
\* ceil(T / max(floor(2000/T), 10)) ticks.
C5_TickFormula ==
    \A i \in DOMAIN counters :
        (counters[i].timer = "cleared" /\ TargetOf(counters[i]).kind = "num"
            /\ TargetOf(counters[i]).val >= 1) =>
        counters[i].ticks = CeilDiv(TargetOf(counters[i]).val, PeriodOf(counters[i]))

\* C5 amended: a counter with target T >= 1 performs exactly T ticks before
\* its timer is cleared, and after k ticks it displays k.
C5_TicksEqualTarget ==
    \A i \in DOMAIN counters :
        (counters[i].animated /\ TargetOf(counters[i]).kind = "num"
            /\ TargetOf(counters[i]).val >= 1) =>
        /\ counters[i].timer = "cleared" => counters[i].ticks = TargetOf(counters[i]).val
        /\ counters[i].timer = "running" => counters[i].ticks < TargetOf(counters[i]).val
        /\ counters[i].ticks > 0 => counters[i].text = StringOf(counters[i].ticks)

\* a counter with target 201, whose period is the 10 ms floor, has finished
C5_Witness ==
    \E i \in DOMAIN counters :
        /\ counters[i].timer = "cleared"
        /\ TargetOf(counters[i]).val = 201
        /\ counters[i].delay = Num(MinInterval)

\* C6: whatever the scroll events, at most one interval timer is ever started
\* for a counter element.
C6_OneTimer == \A i \in DOMAIN counters : counters[i].started <= 1

\* a counter whose animation finished, that was then scrolled below the
\* viewport and is in view again
C6_Witness ==
    \E i \in DOMAIN counters :
        /\ counters[i].timer = "cleared"
        /\ counters[i].away
        /\ CounterPosition(counters[i], scrollY) < innerHeight
        /\ counters[i].started = 1

\* C7: once the scroll-spy is installed, a section's nav link is active
\* exactly when scrollY is in [top - 100, top - 100 + height).
C7_HalfOpenRange ==
    "highlightNavLink" \in wired =>
        \A i \in Sections :
            markup.sections[i].hasLink =>
                (navLinkActive[i] <=>
                    /\ scrollY >= markup.sections[i].top - NavOffset
                    /\ scrollY < markup.sections[i].top - NavOffset
                                    + markup.sections[i].height)

\* C8: when exactly one module's init faults at startup, the seven others
\* have been initialized once the DOMContentLoaded handler is over.
C8_SiblingsInitialized ==
    phase = "ready" =>
        \A k \in Modules :
            (Faults(k) /\ \A j \in Modules \ {k} : ~Faults(j)) =>
                inited = Modules \ {k}

\* C9: the three menu classes are all present or all absent, and two menu
\* button clicks in a row restore the state before the first of them.
C9_MenuInStep ==
    /\ hamburgerActive = navLinksActive
    /\ navLinksActive = bodyMenuOpen
    /\ (lastEvent = "menuBtn" /\ prevEvent = "menuBtn") => MenuState = menuBefore2

\* the menu was open, and the button was clicked twice
C9_Witness ==
    /\ lastEvent = "menuBtn"
    /\ prevEvent = "menuBtn"
    /\ menuBefore2.body
    /\ bodyMenuOpen

\* C10: after a click on a nav link the menu is closed, whether it was open
\* or closed before the click.
C10_NavLinkCloses ==
    lastEvent = "navLink" =>
        ~hamburgerActive /\ ~navLinksActive /\ ~bodyMenuOpen

\* a nav link was clicked while the menu was open, then clicked again
C10_Witness ==
    /\ lastEvent = "navLink"
    /\ prevEvent = "navLink"
    /\ menuBefore2.hamburger
    /\ ~menuBefore.hamburger
    /\ ~hamburgerActive

\* the images that have resolved: complete at init, loaded or failed
Resolved == {i \in 1..Len(images) : images[i].complete}

\* C11: once init has run, every resolved image has been counted exactly once
\* and no other image has been counted: the loaded count is the number of
\* resolved images plus the two fixed increments.
C11_OneIncrementEach ==
    PRELOADER \in inited =>
        /\ \A i \in 1..Len(images) :
              images[i].counted = IF images[i].complete THEN 1 ELSE 0
        /\ Len(images) > 0 => loadedCount = Cardinality(Resolved) + FixedItems

\* one image was complete at init, one loaded later and one failed later
C11_Witness ==
    /\ PRELOADER \in inited
    /\ \E i, j, k \in 1..Len(images) :
          /\ images[i].complete /\ ~images[i].listening
          /\ images[j].listening /\ images[j].outcome = "load"
          /\ images[k].listening /\ images[k].outcome = "error"
\* the state the completion callback leaves; AOS.refresh can only be counted
\* on a page that has the AOS library
MarkedLoaded ==
    /\ loaderFadeOut
    /\ bodyOverflow = "visible"
    /\ dom.AOS => aosRefreshCalls > 0

\* C12: when every pending image ends in load or error, the document is
\* eventually marked loaded (fade-out, overflow visible, AOS.refresh), and it
\* is never marked loaded while the loaded count is below the total.
C12_EventuallyLoaded ==
    /\ <>MarkedLoaded
    /\ [](loaderFadeOut => loadedCount >= totalItems)

\* the page is marked loaded after an image that was pending at init has fired
C12_Witness ==
    /\ MarkedLoaded
    /\ aosRefreshCalls > 0
    /\ timeouts = 0
    /\ \E i \in 1..Len(images) : images[i].listening /\ images[i].outcome # "none"
\* C13 as stated: no node and no storage key is written by two modules.
C13_DisjointWrites == \A n \in Nodes : Cardinality(writers[n]) <= 1

\* C13 amended: no storage key and no node other than document.body is
\* written by two modules; document.body is written by preloader (inline
\* overflow) and by mobileMenu (class menu-open) and by no other module.
C13_DisjointExceptBody ==
    /\ \A n \in Nodes \ {"body"} : Cardinality(writers[n]) <= 1
    /\ writers["body"] \subseteq {PRELOADER, MOBILEMENU}

\* the completion callback and a menu click have both written document.body,
\* and the other modules have written their own nodes
C13_Witness ==
    /\ writers["body"] = {PRELOADER, MOBILEMENU}
    /\ writers["storage.theme"] = {THEMESWITCHER}
    /\ writers["header"] = {SCROLLEFFECTS}
    /\ writers["tabPanes"] = {FEATURETABS}
    /\ writers["navLinkItems"] = {ACTIVENAV}

\* C14: once the control has fired a change event, the root attribute and the
\* stored value are equal, 'dark' when the control is checked and 'light'
\* when it is not; the stored value only ever changes to 'light' or 'dark';
\* and after init the attribute and the stored value change only in a step
\* in which the control changes.
C14_ThemeInStep ==
    /\ [](changedSinceInit =>
            dataTheme = storedTheme /\ storedTheme = ThemeOf(themeChecked)
            /\ (themeChecked => storedTheme = "dark")
            /\ (~themeChecked => storedTheme = "light"))
    /\ [][storedTheme' # storedTheme => storedTheme' \in {"light", "dark"}]_vars
    /\ [][(phase = "ready" /\ phase' = "ready"
            /\ <<dataTheme, storedTheme>>' # <<dataTheme, storedTheme>>)
          => (themeChecked' # themeChecked /\ changedSinceInit')]_vars

\* a page that started from a foreign stored value and was switched to light
C14_Witness ==
    /\ changedSinceInit
    /\ themeAtInit.stored = "sepia"
    /\ storedTheme = "light"
    /\ dataTheme = "light"
    /\ ~themeChecked
\* C15: once the scroll handler is installed, the header carries 'scrolled'
\* exactly when scrollY > 50 and the back-to-top button carries 'active'
\* exactly when scrollY > 500; so a page scrolled from 0 to 600 and back to
\* 0 ends with both classes absent.
C15_ScrollClasses ==
    "handleScroll" \in wired =>
        /\ headerScrolled <=> scrollY > HeaderThreshold
        /\ backToTopActive <=> scrollY > BackToTopThreshold

\* back at the top with both classes absent, after the handler has run at an
\* offset above 500 (where it started the counter that lies 1100 down)
C15_Witness ==
    /\ "handleScroll" \in wired
    /\ scrollY = 0
    /\ ~headerScrolled
    /\ ~backToTopActive
    /\ counters[1].animated
    /\ counters[1].posAtStart < innerHeight

\* C16: a counter is started only at an offset at which its bounding box
\* intersects the viewport: its top is above the viewport's bottom edge and
\* its bottom is below the viewport's top edge.
C16_StartedInViewport ==
    \A i \in DOMAIN counters :
        counters[i].animated =>
            /\ counters[i].posAtStart < innerHeight
            /\ counters[i].posAtStart + CounterHeight > 0

\* C17: the preloader's total is the number of images preloader.init
\* iterates plus two, and the loaded count does not reach the total while
\* one of those images is still pending.
C17_TotalOverInitImages ==
    PRELOADER \in inited =>
        /\ totalItems = Len(images) + FixedItems
        /\ (reachedAt # 0 /\ Len(images) > 0) =>
                \A i \in 1..Len(images) : images[i].complete

\* C18: the loaded count never exceeds the total, the completion callback is
\* never scheduled a second time, and it has been scheduled once the count
\* has reached the total.
C18_BoundedAndOnce ==
    /\ loadedCount <= totalItems
    /\ scheduled <= 1
    /\ loadedCount >= totalItems /\ PRELOADER \in inited => scheduled = 1

\* C19: when a smooth scroll has settled at its target section's
\* offsetTop - 100, that section's nav link is active and the preceding
\* section's nav link is not.
C19_SettledTargetActive ==
    "highlightNavLink" \in wired =>
        \A i \in arrived :
            markup.sections[i].hasLink =>
                /\ navLinkActive[i]
                /\ (i > 1 /\ markup.sections[i - 1].hasLink)
                        => ~navLinkActive[i - 1]

\* each section starts where the one before it ends
Contiguous(secs) ==
    \A i \in 2..Len(secs) : secs[i].top = secs[i - 1].top + secs[i - 1].height

\* C20: on a page whose sections are contiguous and each have a nav link, at
\* most one nav link is active once the scroll-spy is installed, also when
\* scrollY is exactly on the boundary between two sections.
C20_AtMostOneActive ==
    ("highlightNavLink" \in wired
        /\ Contiguous(markup.sections)
        /\ \A i \in Sections : markup.sections[i].hasLink)
    => Cardinality({i \in Sections : navLinkActive[i]}) <= 1

\* scrollY exactly on the boundary between the first and the second section
C20_Witness ==
    /\ "highlightNavLink" \in wired
    /\ Contiguous(markup.sections)
    /\ \A i \in Sections : markup.sections[i].hasLink
    /\ scrollY = markup.sections[2].top - NavOffset
    /\ scrollY = markup.sections[1].top - NavOffset + markup.sections[1].height
    /\ {i \in Sections : navLinkActive[i]} = {1}
====
